---- MODULE Spec2Model ----
(***************************************************************************)
(* A model of the rhythm-backend analytics layer:                          *)
(*   analytics/metrics_calculator.py, analytics/analytics_service.py       *)
(*   services/analytics_service.py, services/dashboard_service.py          *)
(*   services/aggregators/{user,event}_aggregator.py                       *)
(*                                                                         *)
(* Python values are tagged pairs <<type name, repr>>, so that None, "", 0 *)
(* and False stay distinct values with their own truth value.  A dict is   *)
(* a function whose DOMAIN is its key set; a list object lives in `heap`   *)
(* and is named by its index, so that a copy and an alias differ.          *)
(***************************************************************************)
EXTENDS Integers, Sequences, FiniteSets, TLC

VARIABLES
    facade,      \* analytics.AnalyticsService instance: [calculator |-> class name]
    events,      \* the list of records (events, users) the caller passes in a call
    heap,        \* list objects: heap[r] is the content of list object r
    objs,        \* aggregator objects: objs[a] is a record with field cls
    callerRecs,  \* the caller's own list of user/event records (a heap index)
    callerAggs,  \* the caller's own list of aggregators (a heap index)
    service,     \* services.AnalyticsService instance: [aggregators |-> heap index], or NoObject
    dashboard,   \* DashboardService instance: [analytics_service, aggregators], or NoObject
    call,        \* the last operation called, with its receiver
    ret          \* what that operation returned (or the exception it let through)

vars == <<facade, events, heap, objs, callerRecs, callerAggs, service, dashboard, call, ret>>

----------------------------------------------------------------------------
(* Bounds *)

MaxEvents == 2
MaxRecs == 2
MaxAggs == 1
MaxCallerAggs == 2
MaxRegistry == 3

----------------------------------------------------------------------------
(* Python values *)

PyNone == <<"NoneType", "None">>
PyStr(s) == <<"str", s>>
PyInt(s) == <<"int", s>>
PyBool(s) == <<"bool", s>>

\* bool(v) for the value kinds above
Truthy(v) ==
    CASE v[1] = "NoneType" -> FALSE
      [] v[1] = "str" -> v[2] # ""
      [] v[1] = "int" -> v[2] # "0"
      [] v[1] = "bool" -> v[2] = "True"
      [] OTHER -> TRUE

EmptyDict == [k \in {} |-> 0]

\* d.get(k, default)
DictGet(d, k, default) == IF k \in DOMAIN d THEN d[k] ELSE default

\* d[k] = v
DictSet(d, k, v) == [x \in DOMAIN d \cup {k} |-> IF x = k THEN v ELSE d[x]]

\* d.update(other)
DictUpdate(d, other) ==
    [x \in DOMAIN d \cup DOMAIN other |-> IF x \in DOMAIN other THEN other[x] ELSE d[x]]

\* marks a field a record does not have (an input marker, not a Python value)
Absent == <<"absent", "">>

NoObject == [cls |-> "NoneType"]

\* what a call gives back: a value of some type, or an exception it lets through
Returned(t, v) == [kind |-> "return", type |-> t, value |-> v]
Raised(e) == [kind |-> "raise", exc |-> e]

\* issubclass(e, Exception): SystemExit, KeyboardInterrupt and GeneratorExit derive
\* from BaseException only
IsException(e) == e \notin {"SystemExit", "KeyboardInterrupt", "GeneratorExit"}

\* a reference to list object r, as a constructor argument (the other is PyNone)
ListRef(r) == <<"list", r>>

\* bool(x) for a constructor argument: None and the empty list are falsy
ArgTruthy(h, x) == x # PyNone /\ Len(h[x[2]]) > 0

----------------------------------------------------------------------------
(* analytics/metrics_calculator.py *)

calculate_usage_skip_none(evs) ==
    LET loop[i \in 0..Len(evs)] ==
            IF i = 0 THEN EmptyDict
            ELSE LET event_type == DictGet(evs[i], "type", PyNone)
                 IN  IF event_type = PyNone THEN loop[i - 1]
                     ELSE DictSet(loop[i - 1], event_type,
                                  DictGet(loop[i - 1], event_type, 0) + 1)
    IN  Returned("dict", loop[Len(evs)])

calculate_usage(evs) ==
    LET loop[i \in 0..Len(evs)] ==
            IF i = 0 THEN EmptyDict
            ELSE LET usage == loop[i - 1]
                     event_type == DictGet(evs[i], "type", PyNone)
                 IN  DictSet(usage, event_type, DictGet(usage, event_type, 0) + 1)
    IN  Returned("dict", loop[Len(evs)])

calculate_conflicts_if_present(evs) ==
    LET loop[i \in 0..Len(evs)] ==
            IF i = 0 THEN EmptyDict
            ELSE LET conflicts == loop[i - 1]
                 IN  IF "conflict" \in DOMAIN evs[i]
                     THEN LET key == evs[i]["conflict"]
                          IN  DictSet(conflicts, key, DictGet(conflicts, key, 0) + 1)
                     ELSE conflicts
    IN  Returned("dict", loop[Len(evs)])

calculate_conflicts(evs) ==
    LET loop[i \in 0..Len(evs)] ==
            IF i = 0 THEN EmptyDict
            ELSE LET conflicts == loop[i - 1]
                 IN  IF Truthy(DictGet(evs[i], "conflict", PyNone))
                     THEN LET key == DictGet(evs[i], "conflict", PyNone)
                          IN  DictSet(conflicts, key, DictGet(conflicts, key, 0) + 1)
                     ELSE conflicts
    IN  Returned("dict", loop[Len(evs)])

----------------------------------------------------------------------------
(* analytics/analytics_service.py: the facade *)

\* A calculator the caller may inject instead of the default one: it reports
\* nothing, whatever the events.
StubCalculatorResult == Returned("dict", EmptyDict)

\* __init__: self.calculator = calculator or MetricsCalculator()
FacadeInit(calculator) ==
    [calculator |-> IF calculator = PyNone THEN "MetricsCalculator" ELSE calculator[2]]

\* get_usage_stats: self.calculator.calculate_usage(events)
get_usage_stats(self, evs) ==
    IF self.calculator = "MetricsCalculator" THEN calculate_usage(evs)
    ELSE StubCalculatorResult

\* get_conflict_report: self.calculator.calculate_conflicts(events)
get_conflict_report(self, evs) ==
    IF self.calculator = "MetricsCalculator" THEN calculate_conflicts(evs)
    ELSE StubCalculatorResult

----------------------------------------------------------------------------
(* services/aggregators/user_aggregator.py, event_aggregator.py *)

\* UserAggregator.__init__ keeping the caller's list itself
UserAggregator_init_alias(h, users) ==
    IF ArgTruthy(h, users)
    THEN [heap |-> h, obj |-> [cls |-> "UserAggregator", users |-> users[2]]]
    ELSE [heap |-> Append(h, <<>>),
          obj |-> [cls |-> "UserAggregator", users |-> Len(h) + 1]]

\* UserAggregator.__init__: self.users = list(users) if users else []
UserAggregator_init(h, users) ==
    [heap |-> Append(h, IF ArgTruthy(h, users) THEN h[users[2]] ELSE <<>>),
     obj |-> [cls |-> "UserAggregator", users |-> Len(h) + 1]]

\* UserAggregator.collect counting the users that have an `active` field
UserAggregator_collect_has_field(h, self) ==
    LET users == h[self.users]
    IN  Returned("dict",
            [k \in {"total_users", "active_users"} |->
                IF k = "total_users" THEN Len(users)
                ELSE Cardinality({i \in 1..Len(users) : "active" \in DOMAIN users[i]})])

\* UserAggregator.collect
UserAggregator_collect(h, self) ==
    LET users == h[self.users]
        total_users == Len(users)
        active_users ==
            Cardinality({i \in 1..Len(users) : Truthy(DictGet(users[i], "active", PyNone))})
    IN  Returned("dict",
            [k \in {"total_users", "active_users"} |->
                IF k = "total_users" THEN total_users ELSE active_users])

\* EventAggregator.__init__: self.events = list(events) if events else []
EventAggregator_init(h, evs) ==
    [heap |-> Append(h, IF ArgTruthy(h, evs) THEN h[evs[2]] ELSE <<>>),
     obj |-> [cls |-> "EventAggregator", events |-> Len(h) + 1]]

\* EventAggregator.collect
EventAggregator_collect(h, self) ==
    LET total_events == Len(h[self.events])
    IN  Returned("dict", [k \in {"total_events"} |-> total_events])

----------------------------------------------------------------------------
(* Aggregators that are not in the repository: what a caller may register.   *)
(* gather_metrics calls collect() on whatever object the registry holds.     *)

\* collect() of a caller's own aggregator classes, by class name
Stub_collect(cls) ==
    CASE cls = "RaisingAggregator" -> Raised("RuntimeError")
      [] cls = "ExitingAggregator" -> Raised("SystemExit")
      [] cls = "ListAggregator" -> Returned("list", <<>>)
      [] cls = "CustomAggregator" ->
            Returned("dict", [k \in {"total_users", "custom"} |->
                                 IF k = "total_users" THEN 9 ELSE 1])
      [] OTHER -> Raised("AttributeError")

\* aggregator.collect(): dispatch on the object's class
collect(h, o) ==
    CASE o.cls = "UserAggregator" -> UserAggregator_collect(h, o)
      [] o.cls = "EventAggregator" -> EventAggregator_collect(h, o)
      [] OTHER -> Stub_collect(o.cls)

----------------------------------------------------------------------------
(* services/analytics_service.py: the registry *)

\* AnalyticsService.__init__: self.aggregators = list(aggregators) if aggregators else []
AnalyticsService_init(h, aggregators) ==
    [heap |-> Append(h, IF ArgTruthy(h, aggregators) THEN h[aggregators[2]] ELSE <<>>),
     obj |-> [cls |-> "AnalyticsService", aggregators |-> Len(h) + 1]]

\* register_aggregator putting the aggregator first
register_aggregator_first(h, self, aggregator) ==
    [h EXCEPT ![self.aggregators] = <<aggregator>> \o @]

\* register_aggregator: self.aggregators.append(aggregator); the heap after it
register_aggregator(h, self, aggregator) ==
    [h EXCEPT ![self.aggregators] = Append(@, aggregator)]

\* gather_metrics with the try around the whole loop: the first failure ends it
gather_metrics_abort(h, os, self) ==
    LET aggs == h[self.aggregators]
        loop[i \in 0..Len(aggs)] ==
            IF i = 0 THEN [kind |-> "running", metrics |-> EmptyDict]
            ELSE LET prev == loop[i - 1]
                 IN  IF prev.kind # "running" THEN prev
                     ELSE LET data == collect(h, os[aggs[i]])
                          IN  IF data.kind = "raise"
                              THEN IF IsException(data.exc)
                                   THEN [kind |-> "stopped", metrics |-> prev.metrics]
                                   ELSE data
                              ELSE IF data.type = "dict"
                                   THEN [prev EXCEPT !.metrics = DictUpdate(@, data.value)]
                                   ELSE prev
        end == loop[Len(aggs)]
    IN  IF end.kind = "raise" THEN end ELSE Returned("dict", end.metrics)

\* gather_metrics keeping the value a key already has
gather_metrics_first_wins(h, os, self) ==
    LET aggs == h[self.aggregators]
        loop[i \in 0..Len(aggs)] ==
            IF i = 0 THEN [kind |-> "running", metrics |-> EmptyDict]
            ELSE LET prev == loop[i - 1]
                 IN  IF prev.kind # "running" THEN prev
                     ELSE LET data == collect(h, os[aggs[i]])
                          IN  IF data.kind = "raise"
                              THEN IF IsException(data.exc) THEN prev ELSE data
                              ELSE IF data.type = "dict"
                                   THEN [prev EXCEPT !.metrics = DictUpdate(data.value, @)]
                                   ELSE prev
        end == loop[Len(aggs)]
    IN  IF end.kind = "raise" THEN end ELSE Returned("dict", end.metrics)

\* gather_metrics: the loop over self.aggregators; `except Exception` absorbs
\* what derives from Exception, anything else leaves the loop and the call
gather_metrics(h, os, self) ==
    LET aggs == h[self.aggregators]
        loop[i \in 0..Len(aggs)] ==
            IF i = 0 THEN [kind |-> "running", metrics |-> EmptyDict]
            ELSE LET prev == loop[i - 1]
                 IN  IF prev.kind # "running" THEN prev
                     ELSE LET data == collect(h, os[aggs[i]])
                          IN  IF data.kind = "raise"
                              THEN IF IsException(data.exc) THEN prev ELSE data
                              ELSE IF data.type = "dict"
                                   THEN [prev EXCEPT !.metrics = DictUpdate(@, data.value)]
                                   ELSE prev
        end == loop[Len(aggs)]
    IN  IF end.kind = "raise" THEN end ELSE Returned("dict", end.metrics)

----------------------------------------------------------------------------
(* services/dashboard_service.py *)

\* DashboardService.__init__ that keeps its list and registers nothing
DashboardService_init_no_register(h, analytics_service, aggregators) ==
    [heap |-> Append(h, IF ArgTruthy(h, aggregators) THEN h[aggregators[2]] ELSE <<>>),
     obj |-> [cls |-> "DashboardService",
              analytics_service |-> analytics_service,
              aggregators |-> Len(h) + 1]]

\* DashboardService.__init__: the copy of the list, then each element of the
\* copy registered into the given service, in order
DashboardService_init(h, analytics_service, aggregators) ==
    LET own == IF ArgTruthy(h, aggregators) THEN h[aggregators[2]] ELSE <<>>
        h0 == Append(h, own)
        loop[i \in 0..Len(own)] ==
            IF i = 0 THEN h0
            ELSE register_aggregator(loop[i - 1], analytics_service, own[i])
    IN  [heap |-> loop[Len(own)],
         obj |-> [cls |-> "DashboardService",
                  analytics_service |-> analytics_service,
                  aggregators |-> Len(h) + 1]]

\* get_summary_metrics: self.analytics_service.gather_metrics()
get_summary_metrics(h, os, self) == gather_metrics(h, os, self.analytics_service)

\* the first position of `aggs` holding an object of class `name`, 0 if none
FirstOfClass(os, aggs, name) ==
    IF \E i \in 1..Len(aggs) : os[aggs[i]].cls = name
    THEN CHOOSE i \in 1..Len(aggs) :
            /\ os[aggs[i]].cls = name
            /\ \A j \in 1..(i - 1) : os[aggs[j]].cls # name
    ELSE 0

\* get_user_metrics looking the aggregator up in the service's registry
get_user_metrics_from_service(h, os, self) ==
    LET aggs == h[self.analytics_service.aggregators]
        i == FirstOfClass(os, aggs, "UserAggregator")
    IN  IF i = 0 THEN Returned("dict", EmptyDict) ELSE collect(h, os[aggs[i]])

\* get_user_metrics returning the last UserAggregator of its list
get_user_metrics_last(h, os, self) ==
    LET aggs == h[self.aggregators]
        found == {i \in 1..Len(aggs) : os[aggs[i]].cls = "UserAggregator"}
    IN  IF found = {} THEN Returned("dict", EmptyDict)
        ELSE collect(h, os[aggs[CHOOSE i \in found : \A j \in found : j <= i]])

\* get_user_metrics: the first of self.aggregators whose class name is
\* 'UserAggregator'
get_user_metrics(h, os, self) ==
    LET aggs == h[self.aggregators]
        i == FirstOfClass(os, aggs, "UserAggregator")
    IN  IF i = 0 THEN Returned("dict", EmptyDict) ELSE collect(h, os[aggs[i]])

\* get_event_metrics: the same for 'EventAggregator'
get_event_metrics(h, os, self) ==
    LET aggs == h[self.aggregators]
        i == FirstOfClass(os, aggs, "EventAggregator")
    IN  IF i = 0 THEN Returned("dict", EmptyDict) ELSE collect(h, os[aggs[i]])

----------------------------------------------------------------------------
(* Inputs of the calculator and of the aggregators *)

TypeValues == {Absent, PyNone, PyStr("play"), PyStr("pause")}
ConflictValues == {Absent, PyNone, PyStr(""), PyInt("0"), PyBool("False"),
                   PyStr("double"), PyStr("overlap")}
ActiveValues == {PyBool("True"), PyBool("False"), PyNone}

\* the mapping {"type": t, "conflict": c}, without the fields marked Absent
Event(t, c) ==
    [k \in {f \in {"type", "conflict"} : (IF f = "type" THEN t ELSE c) # Absent}
        |-> IF k = "type" THEN t ELSE c]

\* the mapping {"active": a}
User(a) == [k \in {"active"} |-> a]

Events == {Event(t, c) : t \in TypeValues, c \in ConflictValues}
Users == {User(a) : a \in ActiveValues}

\* what a caller may put in a list of records; Event(Absent, Absent) is the
\* empty mapping, a user with no `active` field
Records == Events \cup Users

CalculatorArgs == {PyNone, <<"object", "MetricsCalculator">>, <<"object", "StubCalculator">>}

NoCall == [op |-> "none"]
NoRet == [kind |-> "none"]

----------------------------------------------------------------------------
(* The calculator, the facade and a freshly built aggregator, called on a    *)
(* list of records the caller builds up.                                     *)

InitCalc ==
    /\ \E c \in CalculatorArgs : facade = FacadeInit(c)
    /\ events = <<>>
    /\ heap = <<>>
    /\ objs = <<>>
    /\ callerRecs = 0
    /\ callerAggs = 0
    /\ service = NoObject
    /\ dashboard = NoObject
    /\ call = NoCall
    /\ ret = NoRet

CalcFrame == UNCHANGED <<facade, heap, objs, callerRecs, callerAggs, service, dashboard>>

\* the caller adds a record to the list it is going to pass
AddRecord ==
    /\ Len(events) < MaxEvents
    /\ \E r \in Records : events' = Append(events, r)
    /\ call' = NoCall
    /\ ret' = NoRet
    /\ CalcFrame

CallCalculateUsage ==
    /\ call' = [op |-> "calculate_usage"]
    /\ ret' = calculate_usage(events)
    /\ UNCHANGED events
    /\ CalcFrame

CallCalculateConflicts ==
    /\ call' = [op |-> "calculate_conflicts"]
    /\ ret' = calculate_conflicts(events)
    /\ UNCHANGED events
    /\ CalcFrame

CallGetUsageStats ==
    /\ call' = [op |-> "get_usage_stats"]
    /\ ret' = get_usage_stats(facade, events)
    /\ UNCHANGED events
    /\ CalcFrame

CallGetConflictReport ==
    /\ call' = [op |-> "get_conflict_report"]
    /\ ret' = get_conflict_report(facade, events)
    /\ UNCHANGED events
    /\ CalcFrame

\* UserAggregator(events).collect(): the aggregator is built on the caller's
\* list and dropped after the call
CallUserAggregatorCollect ==
    /\ LET new == UserAggregator_init(<<events>>, ListRef(1))
       IN  ret' = UserAggregator_collect(new.heap, new.obj)
    /\ call' = [op |-> "UserAggregator.collect"]
    /\ UNCHANGED events
    /\ CalcFrame

\* EventAggregator(events).collect()
CallEventAggregatorCollect ==
    /\ LET new == EventAggregator_init(<<events>>, ListRef(1))
       IN  ret' = EventAggregator_collect(new.heap, new.obj)
    /\ call' = [op |-> "EventAggregator.collect"]
    /\ UNCHANGED events
    /\ CalcFrame

NextCalc ==
    \/ AddRecord
    \/ CallCalculateUsage
    \/ CallCalculateConflicts
    \/ CallGetUsageStats
    \/ CallGetConflictReport
    \/ CallUserAggregatorCollect
    \/ CallEventAggregatorCollect

SpecCalc == InitCalc /\ [][NextCalc]_vars

----------------------------------------------------------------------------
(* The registry and the dashboard, over a pool of aggregators built before.  *)

\* the lists the pool's aggregators are built from
PoolLists ==
    << <<User(PyBool("True")), User(PyBool("False"))>>,
       <<User(PyBool("True"))>>,
       <<Event(PyStr("play"), Absent)>> >>

Pool1 == UserAggregator_init(PoolLists, ListRef(1))
Pool2 == UserAggregator_init(Pool1.heap, ListRef(2))
Pool3 == EventAggregator_init(Pool2.heap, ListRef(3))
Pool4 == EventAggregator_init(Pool3.heap, PyNone)

PoolHeap == Pool4.heap
PoolObjs ==
    <<Pool1.obj, Pool2.obj, Pool3.obj, Pool4.obj,
      [cls |-> "RaisingAggregator"], [cls |-> "ExitingAggregator"],
      [cls |-> "ListAggregator"], [cls |-> "CustomAggregator"]>>

\* the lists of aggregators a caller may write down in a constructor call
AggLists == UNION {[1..n -> 1..Len(objs)] : n \in 0..MaxCallerAggs}

\* the service's registry: the content of self.aggregators
Registry == IF service = NoObject THEN <<>> ELSE heap[service.aggregators]

\* the dashboard's own list
DashboardList == IF dashboard = NoObject THEN <<>> ELSE heap[dashboard.aggregators]

\* the heap once the caller has let go of list object r (the list it wrote in
\* an earlier constructor call): nothing refers to it, its slot is left empty
Dropped(h, r) == IF r = 0 THEN h ELSE [h EXCEPT ![r] = <<>>]

\* the list the caller gave to the last constructor called (empty if None)
Supplied == IF callerAggs = 0 THEN <<>> ELSE heap[callerAggs]

Init ==
    /\ facade = FacadeInit(PyNone)
    /\ events = <<>>
    /\ heap = PoolHeap
    /\ objs = PoolObjs
    /\ callerRecs = 0
    /\ callerAggs = 0
    /\ service = NoObject
    /\ dashboard = NoObject
    /\ call = NoCall
    /\ ret = NoRet

\* AnalyticsService(L) with L a list written in the call, or AnalyticsService()
MakeService ==
    /\ service = NoObject
    /\ \/ \E L \in AggLists :
            LET h0 == Append(heap, L)
                new == AnalyticsService_init(h0, ListRef(Len(h0)))
            IN  /\ heap' = new.heap
                /\ service' = new.obj
                /\ callerAggs' = Len(h0)
                /\ call' = [op |-> "AnalyticsService", given |-> TRUE, arg |-> L]
       \/ LET new == AnalyticsService_init(heap, PyNone)
          IN  /\ heap' = new.heap
              /\ service' = new.obj
              /\ callerAggs' = 0
              /\ call' = [op |-> "AnalyticsService", given |-> FALSE, arg |-> <<>>]
    /\ ret' = NoRet
    /\ UNCHANGED <<facade, events, objs, callerRecs, dashboard>>

\* service.register_aggregator(a)
RegisterAggregator ==
    /\ service # NoObject
    /\ Len(Registry) < MaxRegistry
    /\ \E a \in 1..Len(objs) :
          /\ heap' = register_aggregator(heap, service, a)
          /\ call' = [op |-> "register_aggregator", arg |-> a]
    /\ ret' = NoRet
    /\ UNCHANGED <<facade, events, objs, callerRecs, callerAggs, service, dashboard>>

\* service.gather_metrics()
CallGatherMetrics ==
    /\ service # NoObject
    /\ call' = [op |-> "gather_metrics"]
    /\ ret' = gather_metrics(heap, objs, service)
    /\ UNCHANGED <<facade, events, heap, objs, callerRecs, callerAggs, service, dashboard>>

\* DashboardService(service, L) with L a list written in the call, or
\* DashboardService(service); the list given to the service's constructor is
\* out of the caller's hands by then
MakeDashboard ==
    /\ service # NoObject
    /\ dashboard = NoObject
    /\ \/ \E L \in AggLists :
            /\ Len(Registry) + Len(L) <= MaxRegistry
            /\ LET h0 == Append(Dropped(heap, callerAggs), L)
                   new == DashboardService_init(h0, service, ListRef(Len(h0)))
               IN  /\ heap' = new.heap
                   /\ dashboard' = new.obj
                   /\ callerAggs' = Len(h0)
                   /\ call' = [op |-> "DashboardService", given |-> TRUE, arg |-> L]
       \/ LET new == DashboardService_init(Dropped(heap, callerAggs), service, PyNone)
          IN  /\ heap' = new.heap
              /\ dashboard' = new.obj
              /\ callerAggs' = 0
              /\ call' = [op |-> "DashboardService", given |-> FALSE, arg |-> <<>>]
    /\ ret' = NoRet
    /\ UNCHANGED <<facade, events, objs, callerRecs, service>>

DashboardFrame ==
    UNCHANGED <<facade, events, heap, objs, callerRecs, callerAggs, service, dashboard>>

CallGetSummaryMetrics ==
    /\ dashboard # NoObject
    /\ call' = [op |-> "get_summary_metrics"]
    /\ ret' = get_summary_metrics(heap, objs, dashboard)
    /\ DashboardFrame

CallGetUserMetrics ==
    /\ dashboard # NoObject
    /\ call' = [op |-> "get_user_metrics"]
    /\ ret' = get_user_metrics(heap, objs, dashboard)
    /\ DashboardFrame

CallGetEventMetrics ==
    /\ dashboard # NoObject
    /\ call' = [op |-> "get_event_metrics"]
    /\ ret' = get_event_metrics(heap, objs, dashboard)
    /\ DashboardFrame

Next ==
    \/ MakeService
    \/ RegisterAggregator
    \/ CallGatherMetrics
    \/ MakeDashboard
    \/ CallGetSummaryMetrics
    \/ CallGetUserMetrics
    \/ CallGetEventMetrics

Spec == Init /\ [][Next]_vars

----------------------------------------------------------------------------
(* Aggregators and a service built from lists the caller keeps and changes.  *)

\* the record the caller puts in its list: what the copies are checked on is
\* the lists' lengths, which every append and removal changes
CallerRecords == {User(PyBool("True"))}

InitAgg ==
    /\ facade = FacadeInit(PyNone)
    /\ events = <<>>
    /\ heap = << <<>>, <<>> >>
    /\ objs = <<>>
    /\ callerRecs = 1
    /\ callerAggs = 2
    /\ service = NoObject
    /\ dashboard = NoObject
    /\ call = NoCall
    /\ ret = NoRet

AggFrame == UNCHANGED <<facade, events, callerRecs, callerAggs, dashboard>>

\* the caller's list.append(r)
CallerAppendRecord ==
    /\ Len(heap[callerRecs]) < MaxRecs
    /\ \E r \in CallerRecords : heap' = [heap EXCEPT ![callerRecs] = Append(@, r)]
    /\ call' = [op |-> "caller"]
    /\ ret' = NoRet
    /\ UNCHANGED <<objs, service>>
    /\ AggFrame

\* the caller's del list[i]
CallerRemoveRecord ==
    /\ \E i \in 1..Len(heap[callerRecs]) :
          heap' = [heap EXCEPT ![callerRecs] =
                      SubSeq(@, 1, i - 1) \o SubSeq(@, i + 1, Len(@))]
    /\ call' = [op |-> "caller"]
    /\ ret' = NoRet
    /\ UNCHANGED <<objs, service>>
    /\ AggFrame

\* UserAggregator(list) on the caller's list, or UserAggregator()
MakeUserAggregator ==
    /\ Len(objs) < MaxAggs
    /\ \/ LET new == UserAggregator_init(heap, ListRef(callerRecs))
          IN  /\ heap' = new.heap
              /\ objs' = Append(objs, new.obj)
              /\ call' = [op |-> "new", given |-> TRUE]
       \/ LET new == UserAggregator_init(heap, PyNone)
          IN  /\ heap' = new.heap
              /\ objs' = Append(objs, new.obj)
              /\ call' = [op |-> "new", given |-> FALSE]
    /\ ret' = NoRet
    /\ UNCHANGED service
    /\ AggFrame

\* EventAggregator(list) on the caller's list, or EventAggregator()
MakeEventAggregator ==
    /\ Len(objs) < MaxAggs
    /\ \/ LET new == EventAggregator_init(heap, ListRef(callerRecs))
          IN  /\ heap' = new.heap
              /\ objs' = Append(objs, new.obj)
              /\ call' = [op |-> "new", given |-> TRUE]
       \/ LET new == EventAggregator_init(heap, PyNone)
          IN  /\ heap' = new.heap
              /\ objs' = Append(objs, new.obj)
              /\ call' = [op |-> "new", given |-> FALSE]
    /\ ret' = NoRet
    /\ UNCHANGED service
    /\ AggFrame

\* a.collect() on an aggregator built before
CallCollect ==
    /\ \E a \in 1..Len(objs) :
          /\ call' = [op |-> "collect", self |-> a]
          /\ ret' = collect(heap, objs[a])
    /\ UNCHANGED <<heap, objs, service>>
    /\ AggFrame

\* the caller's list of aggregators: append
CallerAppendAggregator ==
    /\ Len(heap[callerAggs]) < MaxCallerAggs
    /\ \E a \in 1..Len(objs) : heap' = [heap EXCEPT ![callerAggs] = Append(@, a)]
    /\ call' = [op |-> "caller"]
    /\ ret' = NoRet
    /\ UNCHANGED <<objs, service>>
    /\ AggFrame

\* the caller's list of aggregators: del list[i]
CallerRemoveAggregator ==
    /\ \E i \in 1..Len(heap[callerAggs]) :
          heap' = [heap EXCEPT ![callerAggs] =
                      SubSeq(@, 1, i - 1) \o SubSeq(@, i + 1, Len(@))]
    /\ call' = [op |-> "caller"]
    /\ ret' = NoRet
    /\ UNCHANGED <<objs, service>>
    /\ AggFrame

\* AnalyticsService(list) on the caller's list of aggregators, or AnalyticsService()
MakeServiceFromCallerList ==
    /\ service = NoObject
    /\ \/ LET new == AnalyticsService_init(heap, ListRef(callerAggs))
          IN  /\ heap' = new.heap
              /\ service' = new.obj
              /\ call' = [op |-> "new", given |-> TRUE]
       \/ LET new == AnalyticsService_init(heap, PyNone)
          IN  /\ heap' = new.heap
              /\ service' = new.obj
              /\ call' = [op |-> "new", given |-> FALSE]
    /\ ret' = NoRet
    /\ UNCHANGED objs
    /\ AggFrame

NextAgg ==
    \/ CallerAppendRecord
    \/ CallerRemoveRecord
    \/ MakeUserAggregator
    \/ MakeEventAggregator
    \/ CallCollect
    \/ CallerAppendAggregator
    \/ CallerRemoveAggregator
    \/ MakeServiceFromCallerList

SpecAgg == InitAgg /\ [][NextAgg]_vars

----------------------------------------------------------------------------
(* Properties of the calculator and of a single aggregator *)

RECURSIVE SumOver(_, _)
SumOver(d, keys) ==
    IF keys = {} THEN 0
    ELSE LET k == CHOOSE x \in keys : TRUE
         IN  d[k] + SumOver(d, keys \ {k})

\* the sum of the values of a mapping of counts
SumValues(d) == SumOver(d, DOMAIN d)

\* the event has no type: the field is missing or null
LacksType(e) == "type" \notin DOMAIN e \/ e["type"] = PyNone

\* the conflict values the claim lists as not counted
FalsyConflicts == {PyNone, PyStr(""), PyInt("0"), PyBool("False")}
CountedConflict(e) == "conflict" \in DOMAIN e /\ e["conflict"] \notin FalsyConflicts

UsageCalled ==
    \/ call.op = "calculate_usage"
    \/ call.op = "get_usage_stats" /\ facade.calculator = "MetricsCalculator"

ConflictsCalled ==
    \/ call.op = "calculate_conflicts"
    \/ call.op = "get_conflict_report" /\ facade.calculator = "MetricsCalculator"

\* C3: calculate_usage (and get_usage_stats with the default calculator) returns a
\* mapping whose keys are exactly the type values occurring in the events, None
\* standing for an event without type and present iff there is one; each value
\* is the number of events of that type, the values sum to len(events), and the
\* empty list gives the empty mapping.
C3_UsageCounts ==
    UsageCalled =>
        /\ ret.kind = "return" /\ ret.type = "dict"
        /\ DOMAIN ret.value =
              {e["type"] : e \in {events[i] : i \in {j \in 1..Len(events) : ~LacksType(events[j])}}}
              \cup (IF \E i \in 1..Len(events) : LacksType(events[i]) THEN {PyNone} ELSE {})
        /\ (PyNone \in DOMAIN ret.value) <=> (\E i \in 1..Len(events) : LacksType(events[i]))
        /\ \A k \in DOMAIN ret.value :
              ret.value[k] =
                 Cardinality({i \in 1..Len(events) :
                    IF k = PyNone THEN LacksType(events[i])
                    ELSE ~LacksType(events[i]) /\ events[i]["type"] = k})
        /\ SumValues(ret.value) = Len(events)
        /\ (events = <<>> => ret.value = EmptyDict)

\* C3 witness: two events of one type and the usage counted, and an event without
\* type counted under None
C3_Witness ==
    /\ call.op = "get_usage_stats" /\ facade.calculator = "MetricsCalculator"
    /\ Len(events) = 2
    /\ "type" \notin DOMAIN events[1]
    /\ ~LacksType(events[2])
    /\ ret.value[PyNone] = 1

\* C4: calculate_conflicts (and get_conflict_report with the default calculator)
\* counts only the events with a truthy conflict: every key is such a conflict
\* value and maps to the number of events carrying it, the values sum to the
\* number of events with a truthy conflict, and an event whose conflict is
\* missing, None, "", 0 or False adds no key and no count.
C4_ConflictCounts ==
    ConflictsCalled =>
        /\ ret.kind = "return" /\ ret.type = "dict"
        /\ DOMAIN ret.value =
              {e["conflict"] : e \in {events[i] : i \in {j \in 1..Len(events) : CountedConflict(events[j])}}}
        /\ DOMAIN ret.value \cap FalsyConflicts = {}
        /\ \A k \in DOMAIN ret.value :
              ret.value[k] =
                 Cardinality({i \in 1..Len(events) :
                    CountedConflict(events[i]) /\ events[i]["conflict"] = k})
        /\ SumValues(ret.value) =
              Cardinality({i \in 1..Len(events) : CountedConflict(events[i])})

\* C4 witness: one event with a conflict and one with the conflict 0, and the
\* report holds the first alone
C4_Witness ==
    /\ call.op = "get_conflict_report" /\ facade.calculator = "MetricsCalculator"
    /\ Len(events) = 2
    /\ events[1] = Event(PyStr("play"), PyStr("double"))
    /\ events[2] = Event(PyStr("play"), PyInt("0"))
    /\ ret.value = [k \in {PyStr("double")} |-> 1]

\* the users the claim counts as active
FalsyActive == {PyNone, PyBool("False")}
CountedActive(u) == "active" \in DOMAIN u /\ u["active"] \notin FalsyActive

\* C9: UserAggregator.collect() returns exactly the keys total_users and
\* active_users: the number of stored users and the number of them whose active
\* field is truthy; a user without the field is inactive and raises nothing;
\* 0 <= active_users <= total_users.
C9_UserCounts ==
    call.op = "UserAggregator.collect" =>
        /\ ret.kind = "return" /\ ret.type = "dict"
        /\ DOMAIN ret.value = {"total_users", "active_users"}
        /\ ret.value["total_users"] = Len(events)
        /\ ret.value["active_users"] =
              Cardinality({i \in 1..Len(events) : CountedActive(events[i])})
        /\ 0 <= ret.value["active_users"]
        /\ ret.value["active_users"] <= ret.value["total_users"]

\* C9 witness: an active user and a user without the field, counted 2 and 1
C9_Witness ==
    /\ call.op = "UserAggregator.collect"
    /\ Len(events) = 2
    /\ events[1] = User(PyBool("True"))
    /\ "active" \notin DOMAIN events[2]
    /\ ret.value["total_users"] = 2
    /\ ret.value["active_users"] = 1

----------------------------------------------------------------------------
(* Properties of the registry *)

\* what collect() of aggregator a gives in the current state
CollectOf(a) == collect(heap, objs[a])

\* the aggregator's collect() raises
Fails(a) == CollectOf(a).kind = "raise"

\* the aggregator's collect() raises something `except Exception` does not catch
Escapes(a) == Fails(a) /\ ~IsException(CollectOf(a).exc)

\* the aggregator's collect() returns a mapping
GivesMapping(a) == CollectOf(a).kind = "return" /\ CollectOf(a).type = "dict"

\* the registry without the aggregators whose collect() raises
WithoutFailing == SelectSeq(Registry, LAMBDA a : ~Fails(a))

\* gather_metrics() of the same service were its registry the list `aggs`
GatherOver(aggs) ==
    gather_metrics([heap EXCEPT ![service.aggregators] = aggs], objs, service)

\* every aggregator of the registry that gives a mapping has its keys in the result
AllCollected ==
    \A i \in 1..Len(Registry) :
        GivesMapping(Registry[i]) => DOMAIN CollectOf(Registry[i]).value \subseteq DOMAIN ret.value

\* C1 as stated: whatever a failing aggregator raises and wherever it stands,
\* gather_metrics() returns normally, with the result of the registry without
\* the failing aggregators, those after a failing one collected too.
C1_NeverPropagates ==
    call.op = "gather_metrics" =>
        /\ ret.kind = "return"
        /\ ret = GatherOver(WithoutFailing)
        /\ AllCollected

\* C1 (amended): a failure that derives from Exception is absorbed wherever the
\* failing aggregator stands: gather_metrics() returns the result of the registry
\* without the failing aggregators, those after a failing one collected too.  An
\* exception that derives from BaseException alone leaves gather_metrics().
C1_AbsorbsExceptions ==
    call.op = "gather_metrics" =>
        IF \E i \in 1..Len(Registry) : Escapes(Registry[i])
        THEN LET first == CHOOSE i \in 1..Len(Registry) :
                            /\ Escapes(Registry[i])
                            /\ \A j \in 1..(i - 1) : ~Escapes(Registry[j])
             IN  ret = Raised(CollectOf(Registry[first]).exc)
        ELSE /\ ret.kind = "return"
             /\ ret = GatherOver(WithoutFailing)
             /\ AllCollected

\* C1 witness: a raising aggregator between two that give mappings, and the
\* result holds the keys of both
C1_Witness ==
    /\ call.op = "gather_metrics"
    /\ Len(Registry) = 3
    /\ objs[Registry[1]].cls = "UserAggregator"
    /\ objs[Registry[2]].cls = "RaisingAggregator"
    /\ objs[Registry[3]].cls = "EventAggregator"
    /\ ret.kind = "return"
    /\ DOMAIN ret.value = {"total_users", "active_users", "total_events"}

\* the positions of the registry whose aggregator gives a mapping with key k
Givers(k) ==
    {i \in 1..Len(Registry) :
        GivesMapping(Registry[i]) /\ k \in DOMAIN CollectOf(Registry[i]).value}

\* C2: the result of gather_metrics() has exactly the keys of the mappings its
\* aggregators give, each with the value of the latest registered aggregator
\* giving that key; a collect() that fails or gives no mapping adds nothing.
C2_LastRegisteredWins ==
    (call.op = "gather_metrics" /\ ret.kind = "return") =>
        /\ ret.type = "dict"
        /\ DOMAIN ret.value =
              UNION {DOMAIN CollectOf(Registry[i]).value :
                        i \in {j \in 1..Len(Registry) : GivesMapping(Registry[j])}}
        /\ \A k \in DOMAIN ret.value :
              LET last == CHOOSE i \in Givers(k) : \A j \in Givers(k) : j <= i
              IN  ret.value[k] = CollectOf(Registry[last]).value[k]

\* C2 witness: two aggregators giving total_users with an aggregator giving a
\* list between them, and the result holds the later value
C2_Witness ==
    /\ call.op = "gather_metrics"
    /\ Len(Registry) = 3
    /\ objs[Registry[1]].cls = "CustomAggregator"
    /\ objs[Registry[2]].cls = "ListAggregator"
    /\ Registry[3] = 1
    /\ ret.kind = "return"
    /\ ret.value["total_users"] = 2
    /\ ret.value["custom"] = 1

----------------------------------------------------------------------------
(* Properties of the dashboard *)

\* the positions of a list of aggregators holding an object of class `name`
OfClass(aggs, name) == {i \in 1..Len(aggs) : objs[aggs[i]].cls = name}

EmptyMapping == Returned("dict", EmptyDict)

\* C5: get_user_metrics() returns the empty mapping when the list given to the
\* dashboard's constructor held no UserAggregator, whatever the service has
\* registered; get_event_metrics() likewise for EventAggregator.
C5_OwnListOnly ==
    /\ (call.op = "get_user_metrics" /\ OfClass(Supplied, "UserAggregator") = {})
          => ret = EmptyMapping
    /\ (call.op = "get_event_metrics" /\ OfClass(Supplied, "EventAggregator") = {})
          => ret = EmptyMapping

\* C5 witness: the service holds a UserAggregator registered directly, the
\* dashboard was given a list without one, and get_user_metrics() gave {}
C5_Witness ==
    /\ call.op = "get_user_metrics"
    /\ Len(Supplied) = 1
    /\ objs[Supplied[1]].cls = "EventAggregator"
    /\ OfClass(Registry, "UserAggregator") # {}
    /\ objs[Registry[Len(Registry)]].cls = "UserAggregator"
    /\ ret = EmptyMapping

\* C6: constructing a DashboardService on service S with list L appends the
\* elements of L, in order and without de-duplication, to the registry S had,
\* so that get_summary_metrics() is gather_metrics() over both; with L absent or
\* empty the registry is unchanged.
C6_ConstructionRegisters ==
    [][(dashboard = NoObject /\ dashboard' # NoObject) =>
          /\ Registry' = Registry \o call'.arg
          /\ (~call'.given \/ call'.arg = <<>>) => Registry' = Registry
          /\ get_summary_metrics(heap', objs', dashboard') = GatherOver(Registry \o call'.arg)
      ]_vars

\* C6 witness: a dashboard built with a list of two on a service that already
\* held one of them
C6_Witness ==
    /\ call.op = "DashboardService"
    /\ call.arg = <<3, 1>>
    /\ Registry = <<3, 3, 1>>
    /\ DashboardList = <<3, 1>>

\* s is a prefix of t
IsPrefix(s, t) == Len(s) <= Len(t) /\ SubSeq(t, 1, Len(s)) = s

\* C7: the registry only grows: each step leaves the registry it had as a
\* prefix; register_aggregator appends exactly its argument; gather_metrics and
\* the dashboard's three getters leave it unchanged.
C7_RegistryGrows ==
    [][/\ IsPrefix(Registry, Registry')
       /\ call'.op = "register_aggregator" => Registry' = Append(Registry, call'.arg)
       /\ call'.op \in {"gather_metrics", "get_summary_metrics",
                        "get_user_metrics", "get_event_metrics"}
             => Registry' = Registry
      ]_vars

\* C7 witness: an aggregator registered directly after the dashboard was built
C7_Witness ==
    /\ call.op = "register_aggregator"
    /\ dashboard # NoObject
    /\ Len(DashboardList) = 1
    /\ Len(Registry) = 3
    /\ Registry[3] = call.arg

\* the first and the last position of class `name` in a list of aggregators
FirstIn(aggs, name) == CHOOSE i \in OfClass(aggs, name) : \A j \in OfClass(aggs, name) : i <= j
LastIn(aggs, name) == CHOOSE i \in OfClass(aggs, name) : \A j \in OfClass(aggs, name) : j <= i

\* with several aggregators of class `name` in the supplied list, the getter
\* returns what the first of them collects
FirstOfListWins(getter, name) ==
    (call.op = getter /\ Cardinality(OfClass(Supplied, name)) >= 2) =>
        ret = CollectOf(Supplied[FirstIn(Supplied, name)])

\* a getter returns {} or what an object of exactly that class collects
OnlyOfClass(getter, name) ==
    call.op = getter =>
        \/ ret = EmptyMapping /\ OfClass(Supplied, name) = {}
        \/ \E i \in OfClass(Supplied, name) : ret = CollectOf(Supplied[i])

\* the summary, when get_summary_metrics() returns one, reports for `keys` the
\* values of the last aggregator of class `name` in the registry
SummaryOfLast(name, keys) ==
    ret.kind = "return" =>
        \A k \in keys :
            /\ k \in DOMAIN ret.value
            /\ ret.value[k] = CollectOf(Registry[LastIn(Registry, name)]).value[k]

UserKeys == {"total_users", "active_users"}
EventKeys == {"total_events"}

\* C10 as stated: with several aggregators of the kind in the dashboard's list,
\* the getter returns the first one's collect(), chosen by class name alone,
\* whereas get_summary_metrics() reports the values of the last one registered.
C10_FirstVersusLast ==
    /\ FirstOfListWins("get_user_metrics", "UserAggregator")
    /\ FirstOfListWins("get_event_metrics", "EventAggregator")
    /\ OnlyOfClass("get_user_metrics", "UserAggregator")
    /\ OnlyOfClass("get_event_metrics", "EventAggregator")
    /\ (call.op = "get_summary_metrics"
          /\ Cardinality(OfClass(Supplied, "UserAggregator")) >= 2)
            => SummaryOfLast("UserAggregator", UserKeys)
    /\ (call.op = "get_summary_metrics"
          /\ Cardinality(OfClass(Supplied, "EventAggregator")) >= 2)
            => SummaryOfLast("EventAggregator", EventKeys)

\* no aggregator of another class registered after the last one of class
\* `name` gives one of `keys`
NothingOverrides(name, keys) ==
    \A i \in 1..Len(Registry) :
        (i > LastIn(Registry, name) /\ GivesMapping(Registry[i]))
           => DOMAIN CollectOf(Registry[i]).value \cap keys = {}

\* C10 (amended): as stated for the getters; get_summary_metrics() reports the
\* values of the last such aggregator in the service's registry when no
\* aggregator of another kind registered after it gives the same keys.
C10_FirstVersusLastUnlessOverridden ==
    /\ FirstOfListWins("get_user_metrics", "UserAggregator")
    /\ FirstOfListWins("get_event_metrics", "EventAggregator")
    /\ OnlyOfClass("get_user_metrics", "UserAggregator")
    /\ OnlyOfClass("get_event_metrics", "EventAggregator")
    /\ (call.op = "get_summary_metrics"
          /\ Cardinality(OfClass(Supplied, "UserAggregator")) >= 2
          /\ NothingOverrides("UserAggregator", UserKeys))
            => SummaryOfLast("UserAggregator", UserKeys)
    /\ (call.op = "get_summary_metrics"
          /\ Cardinality(OfClass(Supplied, "EventAggregator")) >= 2
          /\ NothingOverrides("EventAggregator", EventKeys))
            => SummaryOfLast("EventAggregator", EventKeys)

\* C10 witness: the dashboard's list holds two different UserAggregators and
\* get_user_metrics() gave the first one's counts
C10_Witness ==
    /\ call.op = "get_user_metrics"
    /\ Supplied = <<1, 2>>
    /\ ret.value["total_users"] = 2
    /\ CollectOf(2).value["total_users"] = 1

----------------------------------------------------------------------------
(* Properties of the copies the constructors keep *)

\* C8: the aggregators and the service keep a copy of the list they are given:
\* no step, the caller's appends and removals included, changes what an
\* aggregator collects or what the registry holds; the stored list is the
\* given one's content at construction, and empty for an absent or empty input
\* (an EventAggregator then collects {"total_events": 0}).
C8_DefensiveCopies ==
    [][/\ \A a \in 1..Len(objs) : collect(heap', objs'[a]) = collect(heap, objs[a])
       /\ service # NoObject => (service' = service /\ Registry' = Registry)
       /\ Len(objs') = Len(objs) + 1 =>
             LET new == objs'[Len(objs')]
                 given == IF call'.given THEN heap[callerRecs] ELSE <<>>
             IN  IF new.cls = "UserAggregator"
                 THEN heap'[new.users] = given
                 ELSE /\ heap'[new.events] = given
                      /\ given = <<>> =>
                            collect(heap', new) =
                               Returned("dict", [k \in {"total_events"} |-> 0])
       /\ (service = NoObject /\ service' # NoObject) =>
             Registry' = (IF call'.given THEN heap[callerAggs] ELSE <<>>)
      ]_vars

\* C8 witness: a UserAggregator built on a list of one user still collects one
\* user after the caller appended to the list
C8_Witness ==
    /\ call.op = "collect"
    /\ Len(objs) >= 1
    /\ objs[1].cls = "UserAggregator"
    /\ Len(heap[objs[1].users]) = 1
    /\ Len(heap[callerRecs]) = 2
    /\ call.self = 1
    /\ ret.value["total_users"] = 1

====
